---- MODULE Spec2Model ----
(***************************************************************************)
(* Timed fruit auctions (backend/subastas): one auction row, its bid       *)
(* ledger, the two bid endpoints, the cancel and actualizar_estados        *)
(* endpoints, the exact-timer scheduler task and the anti-sniping          *)
(* evaluation.  Time is a discrete clock `ahora`; amounts of money are     *)
(* integers counted in 1/SubCent of a centavo, so that an amount sent as   *)
(* a float (mobile endpoint) can fall between two centavos.                *)
(*                                                                         *)
(* Handlers that read a row and write it later without a transaction are   *)
(* modelled as two steps (..._leer, ..._guardar): other requests and the   *)
(* timer thread can run in between.  The bid endpoints run their           *)
(* read-validate-insert under select_for_update inside transaction.atomic  *)
(* and are one step.                                                       *)
(***************************************************************************)
EXTENDS Integers, Sequences, FiniteSets

\* ---------------------------------------------------------------- bounds
MaxTiempo == 4
MaxOfertas == 2
MaxMonto == 3
SubCent == 3
InicioInicial == 1
FinInicial == 3
PrecioBase == 1
MaxEdiciones == 2
MaxFallos == 1

VARIABLES
    ahora,           \* timezone.now()
    subasta,         \* the Subasta row: estado, fecha_hora_inicio, fecha_hora_fin,
                     \* extensiones_realizadas, precio_base
    ofertas,         \* the Oferta rows of the auction, in insertion (id) order
    config,          \* the ConfiguracionSubasta singleton
    respuesta,       \* the Response of the last bid or cancel request
    timer,           \* the programar_timer_subasta task: position and deadline
    timers_activos,  \* scheduler._timers_activos
    evento,          \* scheduler._eventos_puja[id]: "none", "clear" or "set"
    verif,           \* a notificar_puja call in progress
    cancel,          \* a cancelar request in progress
    act,             \* an actualizar_estados request in progress
    edicion,         \* an update / partial_update request in progress, and
                     \* the number of such requests so far
    pubs             \* number of WebSocket events sent, by kind

vars == <<ahora, subasta, ofertas, config, respuesta, timer, timers_activos,
          evento, verif, cancel, act, edicion, pubs>>

ID == 1

Estados == {"PROGRAMADA", "ACTIVA", "FINALIZADA", "CANCELADA"}

\* ----------------------------------------------------------- Subasta model

\* Subasta.estado_calculado
\* estado_calculado with fecha_hora_fin excluded from ACTIVA
estado_calculado_fin_exclusivo(s, t) ==
    IF s.estado = "CANCELADA" THEN "CANCELADA"
    ELSE IF t < s.inicio THEN "PROGRAMADA"
    ELSE IF s.inicio <= t /\ t < s.fin THEN "ACTIVA"
    ELSE "FINALIZADA"

\* estado_calculado without the override of a stored CANCELADA
estado_calculado_sin_cancelada(s, t) ==
    IF t < s.inicio THEN "PROGRAMADA"
    ELSE IF s.inicio <= t /\ t <= s.fin THEN "ACTIVA"
    ELSE "FINALIZADA"

estado_calculado(s, t) ==
    IF s.estado = "CANCELADA" THEN "CANCELADA"
    ELSE IF t < s.inicio THEN "PROGRAMADA"
    ELSE IF s.inicio <= t /\ t <= s.fin THEN "ACTIVA"
    ELSE "FINALIZADA"

\* Subasta.esta_activa
esta_activa(s, t) == estado_calculado(s, t) = "ACTIVA"

\* Highest monto among the rows of a non-empty ledger
MontoMaximo(ofs) ==
    CHOOSE m \in {ofs[i].monto : i \in DOMAIN ofs} :
        \A j \in DOMAIN ofs : ofs[j].monto <= m

\* The rows ofertas.order_by('-monto').first() may return: the order among
\* rows of equal monto is not specified by the query.
oferta_ganadora(ofs) == {i \in DOMAIN ofs : ofs[i].monto = MontoMaximo(ofs)}

\* Subasta.precio_actual
precio_actual(s, ofs) ==
    IF ofs # <<>> THEN MontoMaximo(ofs) ELSE s.precio_base

\* Subasta.puede_ofertar: "OK" or the reason of the refusal
\* puede_ofertar refusing only amounts strictly below the current price
puede_ofertar_acepta_igual(s, ofs, t, monto) ==
    IF ~esta_activa(s, t) THEN "NO_ACTIVA"
    ELSE IF monto < precio_actual(s, ofs) THEN "MONTO_BAJO"
    ELSE "OK"

puede_ofertar(s, ofs, t, monto) ==
    IF ~esta_activa(s, t) THEN "NO_ACTIVA"
    ELSE IF monto <= precio_actual(s, ofs) THEN "MONTO_BAJO"
    ELSE "OK"

\* Oferta.monto = DecimalField(max_digits=12, decimal_places=2): the value
\* stored for an amount is the nearest whole centavo, a tie going to the even
\* centavo (the decimal context's ROUND_HALF_EVEN).
DecimalField(m) ==
    LET centavos == m \div SubCent
        resto == m % SubCent
    IN  IF 2 * resto < SubCent THEN SubCent * centavos
        ELSE IF 2 * resto > SubCent THEN SubCent * (centavos + 1)
        ELSE IF centavos % 2 = 0 THEN SubCent * centavos
        ELSE SubCent * (centavos + 1)

\* Oferta._actualizar_ganadora, for the row `id` just saved, when the query
\* for the highest row returned `oferta_maxima`
_actualizar_ganadora(ofs, id, oferta_maxima) ==
    LET desmarcadas == [i \in DOMAIN ofs |->
                          IF i # id THEN [ofs[i] EXCEPT !.es_ganadora = FALSE]
                          ELSE ofs[i]]
    IN  IF oferta_maxima = id /\ ~ofs[id].es_ganadora
        THEN [desmarcadas EXCEPT ![id].es_ganadora = TRUE]
        ELSE desmarcadas

\* Oferta.save of a new row
Oferta_save(ofs, monto, oferta_maxima) ==
    LET nuevas == Append(ofs, [monto |-> DecimalField(monto), es_ganadora |-> FALSE])
    IN  _actualizar_ganadora(nuevas, Len(nuevas), oferta_maxima)

\* The ledger after inserting `monto`, for every answer the max query can give
Oferta_create(ofs, monto) ==
    LET nuevas == Append(ofs, [monto |-> DecimalField(monto), es_ganadora |-> FALSE])
    IN  {Oferta_save(ofs, monto, g) : g \in oferta_ganadora(nuevas)}

\* --------------------------------------------------------------- requests

\* Amounts the admin endpoint lets through: OfertaCreateSerializer's
\* DecimalField refuses more than two decimal places.
MontosAdmin == {SubCent * c : c \in 1..MaxMonto}

\* Amounts the mobile endpoint lets through: float(monto), any fraction.
MontosMovil == (SubCent * 1)..(SubCent * MaxMonto)

SinRespuesta == [status |-> 0, motivo |-> ""]

\* OfertaViewSet.create (admin endpoint)
OfertaViewSet_create(monto) ==
    /\ monto \in MontosAdmin
    /\ LET puede == puede_ofertar(subasta, ofertas, ahora, monto)
       IN  IF puede # "OK"
           THEN /\ respuesta' = [status |-> 400, motivo |-> puede]
                /\ UNCHANGED ofertas
           ELSE /\ Len(ofertas) < MaxOfertas
                /\ ofertas' \in Oferta_create(ofertas, monto)
                /\ respuesta' = [status |-> 201, motivo |-> "OK"]
    /\ UNCHANGED <<ahora, subasta, config, timer, timers_activos, evento,
                   verif, cancel, act, pubs,
                   edicion>>

\* PujaMovilViewSet.create (mobile endpoint)
PujaMovilViewSet_create(monto) ==
    /\ monto \in MontosMovil
    /\ LET puede == puede_ofertar(subasta, ofertas, ahora, monto)
       IN  IF puede # "OK"
           THEN /\ respuesta' = [status |-> 400, motivo |-> puede]
                /\ UNCHANGED ofertas
           ELSE /\ Len(ofertas) < MaxOfertas
                /\ ofertas' \in Oferta_create(ofertas, monto)
                /\ respuesta' = [status |-> 201, motivo |-> "OK"]
    /\ UNCHANGED <<ahora, subasta, config, timer, timers_activos, evento,
                   verif, cancel, act, pubs,
                   edicion>>

\* ------------------------------------------------------- anti-sniping

\* No row held: the local variable of a handler that is not running
Ninguna == [estado |-> "", inicio |-> 0, fin |-> 0, extensiones |-> 0,
            precio_base |-> 0]

\* Subasta.clean, called by Subasta.save through full_clean
clean(s) == s.fin > s.inicio

\* _verificar_y_extender up to its save: the branch taken for the row read.
\* "extender" is the only branch that goes on to save.
\* _verificar_y_extender without the check of antisniping_max_extensiones
_verificar_y_extender_sin_limite(cfg, s, t) ==
    IF ~cfg.habilitado THEN "deshabilitado"
    ELSE IF s.estado # "ACTIVA" THEN "no_activa"
    ELSE IF s.fin - t >= cfg.umbral THEN "umbral"
    ELSE "extender"

\* _verificar_y_extender extending when the time left equals the threshold
_verificar_y_extender_umbral_inclusivo(cfg, s, t) ==
    IF ~cfg.habilitado THEN "deshabilitado"
    ELSE IF s.estado # "ACTIVA" THEN "no_activa"
    ELSE IF s.fin - t > cfg.umbral THEN "umbral"
    ELSE IF cfg.max > 0 /\ s.extensiones >= cfg.max THEN "limite"
    ELSE "extender"

_verificar_y_extender(cfg, s, t) ==
    IF ~cfg.habilitado THEN "deshabilitado"
    ELSE IF s.estado # "ACTIVA" THEN "no_activa"
    ELSE IF s.fin - t >= cfg.umbral THEN "umbral"
    ELSE IF cfg.max > 0 /\ s.extensiones >= cfg.max THEN "limite"
    ELSE "extender"

\* The row _verificar_y_extender saves: nueva_fin and extensiones_realizadas
\* The row saved with extensiones_realizadas left as it was
Extendida_sin_contar(cfg, s) ==
    [s EXCEPT !.fin = s.fin + cfg.extension]

Extendida(cfg, s) ==
    [s EXCEPT !.fin = s.fin + cfg.extension, !.extensiones = s.extensiones + 1]

VerifIdle == [pc |-> "idle", s |-> Ninguna, rama |-> ""]

\* notificar_puja, first part: _verificar_y_extender reads the configuration
\* and the row and decides
notificar_puja_leer ==
    /\ verif.pc = "idle"
    /\ LET rama == _verificar_y_extender(config, subasta, ahora)
       IN  IF rama = "extender"
           THEN verif' = [pc |-> "guardar", s |-> subasta, rama |-> rama]
           ELSE verif' = [pc |-> "senal", s |-> Ninguna, rama |-> rama]
    /\ UNCHANGED <<ahora, subasta, ofertas, config, respuesta, timer,
                   timers_activos, evento, cancel, act, pubs,
                   edicion>>

\* _verificar_y_extender, second part: save(update_fields=[fecha_hora_fin,
\* extensiones_realizadas]), then notificar_subasta_actualizada(...,
\* extra_data=...): the method takes no extra_data, so the call raises
\* TypeError before anything is sent; `except Exception` logs it and returns
\* False with the extension saved.  A ValidationError of full_clean is caught
\* the same way and nothing is saved.
notificar_puja_guardar ==
    /\ verif.pc = "guardar"
    /\ LET nueva == Extendida(config, verif.s)
       IN  IF clean(nueva)
           THEN /\ subasta' = [subasta EXCEPT !.fin = nueva.fin,
                                              !.extensiones = nueva.extensiones]
                /\ verif' = [pc |-> "senal", s |-> Ninguna, rama |-> "extendida"]
           ELSE /\ UNCHANGED subasta
                /\ verif' = [pc |-> "senal", s |-> Ninguna, rama |-> "error"]
    /\ UNCHANGED <<ahora, ofertas, config, respuesta, timer, timers_activos,
                   evento, cancel, act, pubs,
                   edicion>>

\* notificar_puja, last part: wake the timer task if it has an event
notificar_puja_senal ==
    /\ verif.pc = "senal"
    /\ evento' = IF evento # "none" THEN "set" ELSE evento
    /\ verif' = VerifIdle
    /\ UNCHANGED <<ahora, subasta, ofertas, config, respuesta, timer,
                   timers_activos, cancel, act, pubs,
                   edicion>>

\* ------------------------------------------------------------ scheduler

\* _get_subasta_data: FALSE for None (terminal state)
_get_subasta_data(s) == s.estado \notin {"CANCELADA", "FINALIZADA"}

\* _get_ids_pendientes
_get_ids_pendientes(s) == IF s.estado \in {"PROGRAMADA", "ACTIVA"} THEN {ID} ELSE {}

\* The task's finally blocks
Salir == [pc |-> "terminado", limite |-> 0]

\* inicializar_timers, at server start
inicializar_timers ==
    /\ timer.pc = "no"
    /\ timer' = IF ID \in _get_ids_pendientes(subasta)
                THEN [pc |-> "creado", limite |-> 0]
                ELSE [pc |-> "ninguno", limite |-> 0]
    /\ UNCHANGED <<ahora, subasta, ofertas, config, respuesta, timers_activos,
                   evento, verif, cancel, act, pubs,
                   edicion>>

\* programar_timer_subasta, lines 67-97 up to the sleep: register, read the row
programar_timer_subasta ==
    /\ timer.pc = "creado"
    /\ ID \notin timers_activos
    /\ IF ~_get_subasta_data(subasta)
       THEN timer' = Salir /\ UNCHANGED <<timers_activos, evento>>
       ELSE IF subasta.estado = "PROGRAMADA"
       THEN /\ timer' = IF subasta.inicio - ahora > 0
                        THEN [pc |-> "dormir", limite |-> subasta.inicio]
                        ELSE [pc |-> "activar", limite |-> 0]
            /\ timers_activos' = timers_activos \cup {ID}
            /\ UNCHANGED evento
       ELSE /\ timer' = [pc |-> "leer", limite |-> 0]
            /\ timers_activos' = timers_activos \cup {ID}
            /\ evento' = "clear"
    /\ UNCHANGED <<ahora, subasta, ofertas, config, respuesta, verif, cancel,
                   act, pubs,
                   edicion>>

\* Another call of programar_timer_subasta for the same id, lines 67-69: with
\* the id in _timers_activos it returns at once; with no task left (none was
\* spawned, or it has exited) it is the start of a new task
programar_timer_subasta_repetida ==
    /\ IF ID \in timers_activos
       THEN UNCHANGED timer
       ELSE /\ timer.pc \in {"ninguno", "terminado"}
            /\ timer' = [pc |-> "creado", limite |-> 0]
    /\ UNCHANGED <<ahora, subasta, ofertas, config, respuesta, timers_activos,
                   evento, verif, cancel, act, pubs, edicion>>

\* asyncio.sleep(segundos_inicio) returns
timer_despertar ==
    /\ timer.pc = "dormir"
    /\ ahora >= timer.limite
    /\ timer' = [pc |-> "activar", limite |-> 0]
    /\ UNCHANGED <<ahora, subasta, ofertas, config, respuesta, timers_activos,
                   evento, verif, cancel, act, pubs,
                   edicion>>

\* _activar_subasta: Subasta.objects.get(pk, estado='PROGRAMADA')
_activar_subasta_leer ==
    /\ timer.pc = "activar"
    /\ IF subasta.estado = "PROGRAMADA"
       THEN timer' = [pc |-> "activando", limite |-> 0] /\ UNCHANGED timers_activos
       ELSE timer' = Salir /\ timers_activos' = timers_activos \ {ID}
    /\ UNCHANGED <<ahora, subasta, ofertas, config, respuesta, evento, verif,
                   cancel, act, pubs,
                   edicion>>

\* _activar_subasta: save(update_fields=['estado']) and the two notifications;
\* the task then creates its event and enters the loop
_activar_subasta_guardar ==
    /\ timer.pc = "activando"
    /\ subasta' = [subasta EXCEPT !.estado = "ACTIVA"]
    /\ pubs' = [pubs EXCEPT !.iniciada = @ + 1, !.actualizada = @ + 1]
    /\ timer' = [pc |-> "leer", limite |-> 0]
    /\ evento' = "clear"
    /\ UNCHANGED <<ahora, ofertas, config, respuesta, timers_activos, verif,
                   cancel, act,
                   edicion>>

\* Phase 2 loop, lines 108-124: read fecha_hora_fin again and decide
\* timer_leer returning on a cancelled auction without the finally blocks
timer_leer_sin_finally ==
    /\ timer.pc = "leer"
    /\ IF ~_get_subasta_data(subasta)
       THEN timer' = Salir /\ UNCHANGED <<timers_activos, evento>>
       ELSE /\ timer' = IF subasta.fin - ahora <= 0
                        THEN [pc |-> "finalizar", limite |-> 0]
                        ELSE [pc |-> "esperar", limite |-> subasta.fin]
            /\ UNCHANGED <<timers_activos, evento>>
    /\ UNCHANGED <<ahora, subasta, ofertas, config, respuesta, verif, cancel,
                   act, pubs,
                   edicion>>

timer_leer ==
    /\ timer.pc = "leer"
    /\ IF ~_get_subasta_data(subasta)
       THEN timer' = Salir /\ timers_activos' = timers_activos \ {ID}
                           /\ evento' = "none"
       ELSE /\ timer' = IF subasta.fin - ahora <= 0
                        THEN [pc |-> "finalizar", limite |-> 0]
                        ELSE [pc |-> "esperar", limite |-> subasta.fin]
            /\ UNCHANGED <<timers_activos, evento>>
    /\ UNCHANGED <<ahora, subasta, ofertas, config, respuesta, verif, cancel,
                   act, pubs,
                   edicion>>

\* wait_for(evento.wait(), timeout) returns: a bid was signalled
timer_puja ==
    /\ timer.pc = "esperar"
    /\ evento = "set"
    /\ evento' = "clear"
    /\ timer' = [pc |-> "leer", limite |-> 0]
    /\ UNCHANGED <<ahora, subasta, ofertas, config, respuesta, timers_activos,
                   verif, cancel, act, pubs,
                   edicion>>

\* wait_for(evento.wait(), timeout) raises TimeoutError
timer_timeout ==
    /\ timer.pc = "esperar"
    /\ evento # "set"
    /\ ahora >= timer.limite
    /\ timer' = [pc |-> "finalizar", limite |-> 0]
    /\ UNCHANGED <<ahora, subasta, ofertas, config, respuesta, timers_activos,
                   evento, verif, cancel, act, pubs,
                   edicion>>

\* _finalizar_subasta: Subasta.objects.get(pk, estado='ACTIVA')
_finalizar_subasta_leer ==
    /\ timer.pc = "finalizar"
    /\ IF subasta.estado = "ACTIVA"
       THEN timer' = [pc |-> "finalizando", limite |-> 0]
            /\ UNCHANGED <<timers_activos, evento>>
       ELSE timer' = Salir /\ timers_activos' = timers_activos \ {ID}
                           /\ evento' = "none"
    /\ UNCHANGED <<ahora, subasta, ofertas, config, respuesta, verif, cancel,
                   act, pubs,
                   edicion>>

\* _finalizar_subasta: save(update_fields=['estado']) and the two notifications;
\* the task then leaves the loop
_finalizar_subasta_guardar ==
    /\ timer.pc = "finalizando"
    /\ subasta' = [subasta EXCEPT !.estado = "FINALIZADA"]
    /\ pubs' = [pubs EXCEPT !.finalizada = @ + 1, !.actualizada = @ + 1]
    /\ timer' = Salir
    /\ timers_activos' = timers_activos \ {ID}
    /\ evento' = "none"
    /\ UNCHANGED <<ahora, ofertas, config, respuesta, verif, cancel, act,
                   edicion>>

\* ------------------------------------------------------- admin requests

\* A row as SubastaViewSet.create inserts it (estado defaults to PROGRAMADA)
Subasta(inicio, fin) ==
    [estado |-> "PROGRAMADA", inicio |-> inicio, fin |-> fin,
     extensiones |-> 0, precio_base |-> SubCent * PrecioBase]

\* SubastaCreateSerializer.validate_packing_detalle: refused when
\* Subasta.objects.filter(packing_detalle=value).exists(), whatever the state
\* of the row found
validate_packing_detalle(fila) == fila = Ninguna

\* SubastaCreateSerializer.validate accepting fecha_hora_fin = fecha_hora_inicio
SubastaCreateSerializer_validate_acepta_igual(inicio, fin) == ~(fin < inicio)

\* SubastaCreateSerializer.validate: fecha_fin <= fecha_inicio is refused
SubastaCreateSerializer_validate(inicio, fin) == ~(fin <= inicio)

\* SubastaViewSet.create: is_valid runs the field validator, then validate;
\* serializer.save() inserts the row and notificar_subasta_creada follows;
\* nothing starts a timer task
SubastaViewSet_create(inicio, fin) ==
    /\ IF ~validate_packing_detalle(subasta)
       THEN /\ respuesta' = [status |-> 400, motivo |-> "YA_EXISTE"]
            /\ UNCHANGED subasta
       ELSE IF ~SubastaCreateSerializer_validate(inicio, fin)
       THEN /\ respuesta' = [status |-> 400, motivo |-> "FECHAS"]
            /\ UNCHANGED subasta
       ELSE /\ subasta' = Subasta(inicio, fin)
            /\ respuesta' = [status |-> 201, motivo |-> "CREADA"]
    /\ UNCHANGED <<ahora, ofertas, config, timer, timers_activos,
                   evento, verif, cancel, act, pubs, edicion>>

\* cancelar without the refusal of an auction past its end
cancelar_leer_sin_control_de_fin ==
    /\ cancel.pc = "idle"
    /\ subasta # Ninguna
    /\ IF subasta.estado = "CANCELADA"
       THEN /\ cancel' = [pc |-> "idle", s |-> Ninguna]
            /\ respuesta' = [status |-> 400, motivo |-> "YA_CANCELADA"]
       ELSE /\ cancel' = [pc |-> "guardar", s |-> subasta]
            /\ UNCHANGED respuesta
    /\ UNCHANGED <<ahora, subasta, ofertas, config, timer, timers_activos,
                   evento, verif, act, pubs, edicion>>

\* SubastaViewSet.cancelar up to its save: get_object (404 without a row)
\* and the two refusals
cancelar_leer ==
    /\ cancel.pc = "idle"
    /\ subasta # Ninguna
    /\ IF subasta.estado = "CANCELADA"
          \/ estado_calculado(subasta, ahora) = "FINALIZADA"
       THEN /\ cancel' = [pc |-> "idle", s |-> Ninguna]
            /\ respuesta' = [status |-> 400,
                             motivo |-> IF subasta.estado = "CANCELADA"
                                        THEN "YA_CANCELADA" ELSE "FINALIZADA"]
       ELSE /\ cancel' = [pc |-> "guardar", s |-> subasta]
            /\ UNCHANGED respuesta
    /\ UNCHANGED <<ahora, subasta, ofertas, config, timer, timers_activos,
                   evento, verif, act, pubs,
                   edicion>>

\* SubastaViewSet.cancelar: subasta.save() writes every field of the object
\* read, then notificar_subasta_cancelada
cancelar_guardar ==
    /\ cancel.pc = "guardar"
    /\ clean(cancel.s)
    /\ subasta' = [cancel.s EXCEPT !.estado = "CANCELADA"]
    /\ pubs' = [pubs EXCEPT !.cancelada = @ + 1]
    /\ cancel' = [pc |-> "idle", s |-> Ninguna]
    /\ respuesta' = [status |-> 200, motivo |-> "CANCELADA"]
    /\ UNCHANGED <<ahora, ofertas, config, timer, timers_activos, evento,
                   verif, act,
                   edicion>>

\* Request bodies of update / partial_update: the fields of
\* SubastaUpdateSerializer that matter here, "" and 0 for a field left out
DatosEdicion == [estado : Estados \cup {""}, inicio : {0, FinInicial},
                 fin : {0, InicioInicial, MaxTiempo}]

\* SubastaUpdateSerializer.validate on the instance and the request body
SubastaUpdateSerializer_validate(instance, data, t) ==
    LET fecha_inicio == IF data.inicio = 0 THEN instance.inicio ELSE data.inicio
        fecha_fin == IF data.fin = 0 THEN instance.fin ELSE data.fin
    IN  IF fecha_fin <= fecha_inicio THEN FALSE
        ELSE IF estado_calculado(instance, t) = "FINALIZADA"
                /\ data.estado # "CANCELADA" THEN FALSE
        ELSE TRUE

\* ModelSerializer.update: the validated fields set on the instance
SubastaUpdateSerializer_update(instance, data) ==
    [instance EXCEPT !.estado = IF data.estado = "" THEN @ ELSE data.estado,
                     !.inicio = IF data.inicio = 0 THEN @ ELSE data.inicio,
                     !.fin = IF data.fin = 0 THEN @ ELSE data.fin]

\* SubastaViewSet.update up to perform_update: get_object and is_valid
update_leer(data) ==
    /\ edicion.pc = "idle"
    /\ subasta # Ninguna
    /\ edicion.n < MaxEdiciones
    /\ IF SubastaUpdateSerializer_validate(subasta, data, ahora)
       THEN edicion' = [pc |-> "guardar", n |-> edicion.n + 1,
                        s |-> SubastaUpdateSerializer_update(subasta, data)]
       ELSE edicion' = [pc |-> "idle", n |-> edicion.n + 1, s |-> Ninguna]
    /\ UNCHANGED <<ahora, subasta, ofertas, config, respuesta, timer,
                   timers_activos, evento, verif, cancel, act, pubs>>

\* SubastaViewSet.update, perform_update: instance.save() writes every field
\* of the object read, then notificar_subasta_actualizada
update_guardar ==
    /\ edicion.pc = "guardar"
    /\ clean(edicion.s)
    /\ subasta' = edicion.s
    /\ pubs' = [pubs EXCEPT !.actualizada = @ + 1]
    /\ edicion' = [edicion EXCEPT !.pc = "idle", !.s = Ninguna]
    /\ UNCHANGED <<ahora, ofertas, config, respuesta, timer, timers_activos,
                   evento, verif, cancel, act>>

\* GET /subastas/{id}/: SubastaDetailSerializer's estado_actual is
\* Subasta.estado_calculado at the time of the request
retrieve ==
    /\ subasta # Ninguna
    /\ respuesta' = [status |-> 200, motivo |-> estado_calculado(subasta, ahora)]
    /\ UNCHANGED <<ahora, subasta, ofertas, config, timer, timers_activos,
                   evento, verif, cancel, act, pubs, edicion>>

\* actualizar_estados, lines 345-359: take the time, query subastas_activar
actualizar_estados_inicio ==
    /\ act.pc = "idle"
    /\ IF /\ subasta.estado = "PROGRAMADA"
          /\ subasta.inicio <= ahora
          /\ subasta.fin >= ahora
       THEN act' = [pc |-> "activar", ahora |-> ahora]
       ELSE act' = [pc |-> "consulta", ahora |-> ahora]
    /\ UNCHANGED <<ahora, subasta, ofertas, config, respuesta, timer,
                   timers_activos, evento, verif, cancel, pubs,
                   edicion>>

\* actualizar_estados, lines 360-364: save(update_fields=['estado'])
actualizar_estados_activar ==
    /\ act.pc = "activar"
    /\ subasta' = [subasta EXCEPT !.estado = "ACTIVA"]
    /\ pubs' = [pubs EXCEPT !.iniciada = @ + 1]
    /\ act' = [act EXCEPT !.pc = "consulta"]
    /\ UNCHANGED <<ahora, ofertas, config, respuesta, timer, timers_activos,
                   evento, verif, cancel,
                   edicion>>

\* actualizar_estados, lines 367-374: query subastas_finalizar
actualizar_estados_consulta ==
    /\ act.pc = "consulta"
    /\ IF /\ subasta.fin < act.ahora
          /\ subasta.estado \notin {"FINALIZADA", "CANCELADA"}
       THEN act' = [pc |-> "finalizar", ahora |-> 0]
       ELSE act' = [pc |-> "idle", ahora |-> 0]
    /\ UNCHANGED <<ahora, subasta, ofertas, config, respuesta, timer,
                   timers_activos, evento, verif, cancel, pubs,
                   edicion>>

\* actualizar_estados, lines 375-379: save(update_fields=['estado'])
actualizar_estados_finalizar ==
    /\ act.pc = "finalizar"
    /\ subasta' = [subasta EXCEPT !.estado = "FINALIZADA"]
    /\ pubs' = [pubs EXCEPT !.finalizada = @ + 1]
    /\ act' = [pc |-> "idle", ahora |-> 0]
    /\ UNCHANGED <<ahora, ofertas, config, respuesta, timer, timers_activos,
                   evento, verif, cancel,
                   edicion>>

\* ------------------------------------------------------------------ time

Tick ==
    /\ ahora < MaxTiempo
    /\ ahora' = ahora + 1
    /\ UNCHANGED <<subasta, ofertas, config, respuesta, timer, timers_activos,
                   evento, verif, cancel, act, pubs,
                   edicion>>

\* ------------------------------------------------ channel layer failures

\* _send_to_group calls async_to_sync(channel_layer.group_send) without a
\* try/except and no notificar_* method has one: an exception of the channel
\* layer reaches the caller. pubs.fallidas counts the publishes that raised.

\* OfertaViewSet.create when notificar_nueva_puja raises: the exception
\* leaves the @transaction.atomic method, the INSERT of serializer.save() and
\* the UPDATEs of _actualizar_ganadora are rolled back
OfertaViewSet_create_falla(monto) ==
    /\ pubs.fallidas < MaxFallos
    /\ monto \in MontosAdmin
    /\ puede_ofertar(subasta, ofertas, ahora, monto) = "OK"
    /\ Len(ofertas) < MaxOfertas
    /\ respuesta' = [status |-> 500, motivo |-> "PUBLICACION"]
    /\ pubs' = [pubs EXCEPT !.fallidas = @ + 1]
    /\ UNCHANGED <<ahora, subasta, ofertas, config, timer, timers_activos,
                   evento, verif, cancel, act, edicion>>

\* PujaMovilViewSet.create when notificar_nueva_puja raises inside the
\* `with transaction.atomic()` block: Oferta.objects.create is rolled back
PujaMovilViewSet_create_falla(monto) ==
    /\ pubs.fallidas < MaxFallos
    /\ monto \in MontosMovil
    /\ puede_ofertar(subasta, ofertas, ahora, monto) = "OK"
    /\ Len(ofertas) < MaxOfertas
    /\ respuesta' = [status |-> 500, motivo |-> "PUBLICACION"]
    /\ pubs' = [pubs EXCEPT !.fallidas = @ + 1]
    /\ UNCHANGED <<ahora, subasta, ofertas, config, timer, timers_activos,
                   evento, verif, cancel, act, edicion>>

\* _activar_subasta when one of its two notifications raises: the save is
\* already committed (autocommit); the exception is not DoesNotExist, so it
\* reaches programar_timer_subasta's `except Exception` and the task ends
_activar_subasta_guardar_falla ==
    /\ pubs.fallidas < MaxFallos
    /\ timer.pc = "activando"
    /\ subasta' = [subasta EXCEPT !.estado = "ACTIVA"]
    /\ \E enviadas \in {0, 1} :
           pubs' = [pubs EXCEPT !.iniciada = @ + enviadas, !.fallidas = @ + 1]
    /\ timer' = Salir
    /\ timers_activos' = timers_activos \ {ID}
    /\ evento' = "none"
    /\ UNCHANGED <<ahora, ofertas, config, respuesta, verif, cancel, act,
                   edicion>>

\* _finalizar_subasta when one of its two notifications raises
_finalizar_subasta_guardar_falla ==
    /\ pubs.fallidas < MaxFallos
    /\ timer.pc = "finalizando"
    /\ subasta' = [subasta EXCEPT !.estado = "FINALIZADA"]
    /\ \E enviadas \in {0, 1} :
           pubs' = [pubs EXCEPT !.finalizada = @ + enviadas, !.fallidas = @ + 1]
    /\ timer' = Salir
    /\ timers_activos' = timers_activos \ {ID}
    /\ evento' = "none"
    /\ UNCHANGED <<ahora, ofertas, config, respuesta, verif, cancel, act,
                   edicion>>

\* SubastaViewSet.cancelar when notificar_subasta_cancelada raises: the
\* save() before it is committed, the request answers 500
cancelar_guardar_falla ==
    /\ pubs.fallidas < MaxFallos
    /\ cancel.pc = "guardar"
    /\ clean(cancel.s)
    /\ subasta' = [cancel.s EXCEPT !.estado = "CANCELADA"]
    /\ pubs' = [pubs EXCEPT !.fallidas = @ + 1]
    /\ cancel' = [pc |-> "idle", s |-> Ninguna]
    /\ respuesta' = [status |-> 500, motivo |-> "PUBLICACION"]
    /\ UNCHANGED <<ahora, ofertas, config, timer, timers_activos, evento,
                   verif, act, edicion>>

\* ------------------------------------------------------------------ spec

\* The server process starts at time t with the table holding `fila`
Arranque(t, fila) ==
    /\ ahora = t
    /\ subasta = fila
    /\ ofertas = <<>>
    /\ config \in [habilitado : BOOLEAN, umbral : {2}, extension : {1}, max : {0, 1}]
    /\ respuesta = SinRespuesta
    /\ timer = [pc |-> "no", limite |-> 0]
    /\ timers_activos = {}
    /\ evento = "none"
    /\ verif = VerifIdle
    /\ cancel = [pc |-> "idle", s |-> Ninguna]
    /\ act = [pc |-> "idle", ahora |-> 0]
    /\ edicion = [pc |-> "idle", n |-> 0, s |-> Ninguna]
    /\ pubs = [iniciada |-> 0, finalizada |-> 0, cancelada |-> 0,
               actualizada |-> 0, fallidas |-> 0]

\* One auction, created before the server started
Init == Arranque(0, Subasta(InicioInicial, FinInicial))

\* No auction yet when the server starts
InitVacio == Arranque(0, Ninguna)

\* A restart at any time, the auction left in any declared state
InitReinicio ==
    \E t \in 0..MaxTiempo, estado \in Estados :
        Arranque(t, [Subasta(InicioInicial, FinInicial) EXCEPT !.estado = estado])

\* An auction with any declared state and any dates that clean accepts, at
\* any time
InitConsulta ==
    \E t \in 0..MaxTiempo, estado \in Estados,
       inicio \in 0..MaxTiempo, fin \in 0..MaxTiempo :
        /\ clean(Subasta(inicio, fin))
        /\ Arranque(t, [Subasta(inicio, fin) EXCEPT !.estado = estado])

\* The scheduler task and the anti-sniping evaluation
AntiSniping ==
    \/ notificar_puja_leer
    \/ notificar_puja_guardar
    \/ notificar_puja_senal

\* The steps of the timer task that need no bid signal
Transiciones ==
    \/ inicializar_timers
    \/ programar_timer_subasta
    \/ timer_despertar
    \/ _activar_subasta_leer
    \/ _activar_subasta_guardar
    \/ timer_leer
    \/ timer_timeout
    \/ _finalizar_subasta_leer
    \/ _finalizar_subasta_guardar

\* The timer task; timer_puja is enabled only after notificar_puja_senal
Temporizador == Transiciones \/ timer_puja

Reloj == AntiSniping \/ Temporizador

Cancelar ==
    \/ cancelar_leer
    \/ cancelar_guardar

Pujas ==
    \/ \E monto \in MontosAdmin : OfertaViewSet_create(monto)
    \/ \E monto \in MontosMovil : PujaMovilViewSet_create(monto)

ActualizarEstados ==
    \/ actualizar_estados_inicio
    \/ actualizar_estados_activar
    \/ actualizar_estados_consulta
    \/ actualizar_estados_finalizar

\* The auction with its bids: bid endpoints, scheduler, anti-sniping, cancel
NextSubasta == Tick \/ Pujas \/ Reloj \/ Cancelar

SpecSubasta == Init /\ [][NextSubasta]_vars

Editar == (\E data \in DatosEdicion : update_leer(data)) \/ update_guardar

Crear == \E inicio \in 1..MaxTiempo, fin \in 1..MaxTiempo : SubastaViewSet_create(inicio, fin)

\* An auction created while the server runs.  The event loop runs every
\* task that is ready and time passes: weak fairness of the scheduler steps
\* and of Tick.
NextCreacion == Tick \/ Crear \/ Reloj

SpecCreacion ==
    InitVacio /\ [][NextCreacion]_vars /\ WF_vars(Tick) /\ WF_vars(Temporizador)

\* The auctions of one lot: created, cancelled, created again, with the
\* timer task
NextLote == Tick \/ Crear \/ Cancelar \/ Transiciones

SpecLote == InitVacio /\ [][NextLote]_vars

\* The writers of fecha_hora_inicio and fecha_hora_fin: create, update and
\* the anti-sniping evaluation
NextFechas == Tick \/ Crear \/ Editar \/ AntiSniping

SpecFechas == InitVacio /\ [][NextFechas]_vars

\* The computed state as the detail endpoint shows it while time passes
NextConsulta == Tick \/ retrieve

SpecConsulta == InitConsulta /\ [][NextConsulta]_vars

\* The registry of timer tasks: the task with every way out of it (finalized,
\* cancelled, a notification that raises) and repeated calls for the same id
NextRegistro ==
    \/ Tick
    \/ Reloj
    \/ Cancelar
    \/ programar_timer_subasta_repetida
    \/ _activar_subasta_guardar_falla
    \/ _finalizar_subasta_guardar_falla

SpecRegistro == Init /\ [][NextRegistro]_vars

\* The timer task with an activation whose notification may raise, and
\* cancel requests.  The event loop runs every task that is ready and time
\* passes: weak fairness of the task's steps and of Tick.
NextActivacion == Tick \/ Transiciones \/ _activar_subasta_guardar_falla \/ Cancelar

SpecActivacion ==
    Init /\ [][NextActivacion]_vars /\ WF_vars(Tick) /\ WF_vars(Temporizador)

\* A server restart with the auction in any state, then the scheduler, the
\* anti-sniping evaluation and cancel requests
NextReinicio == Tick \/ Reloj \/ Cancelar

SpecReinicio ==
    InitReinicio /\ [][NextReinicio]_vars /\ WF_vars(Tick) /\ WF_vars(Temporizador)

\* The declared state under the timer task and the cancel and update
\* endpoints
NextEdicion == Tick \/ Transiciones \/ Cancelar \/ Editar

SpecEdicion == Init /\ [][NextEdicion]_vars

\* The declared state and its writers: scheduler, anti-sniping, cancel and
\* actualizar_estados (the bid endpoints write nothing these steps read)
NextEstados == Tick \/ Reloj \/ Cancelar \/ ActualizarEstados

SpecEstados == Init /\ [][NextEstados]_vars

\* The bid endpoints, the timer task and cancel with a channel layer whose
\* group_send may raise
Fallos ==
    \/ \E monto \in MontosAdmin : OfertaViewSet_create_falla(monto)
    \/ \E monto \in MontosMovil : PujaMovilViewSet_create_falla(monto)
    \/ _activar_subasta_guardar_falla
    \/ _finalizar_subasta_guardar_falla
    \/ cancelar_guardar_falla

NextFallos == Tick \/ Pujas \/ Transiciones \/ Cancelar \/ Fallos

SpecFallos == Init /\ [][NextFallos]_vars

\* ---------------------------------------------------------------- claims

\* The place-bid requests: either endpoint, any amount
Montos == MontosAdmin \cup MontosMovil

Puja(m) == OfertaViewSet_create(m) \/ PujaMovilViewSet_create(m)

PujaAceptada == Len(ofertas') > Len(ofertas)

\* Computed state ACTIVE, as section 3 of the specification defines it
Abierta ==
    /\ subasta.estado # "CANCELADA"
    /\ subasta.inicio <= ahora
    /\ ahora <= subasta.fin

\* m does not exceed the current price: the base price without bids, the
\* highest recorded amount otherwise
NoSupera(m) ==
    IF ofertas = <<>> THEN m <= subasta.precio_base
    ELSE \E i \in DOMAIN ofertas : m <= ofertas[i].monto

Ganadoras == {i \in DOMAIN ofertas : ofertas[i].es_ganadora}

\* C1: at most one bid of the auction is flagged es_ganadora, and when the
\* auction has bids the flagged bid carries the highest amount recorded.
C1_GanadoraUnicaYMaxima ==
    /\ Cardinality(Ganadoras) <= 1
    /\ ofertas # <<>> =>
          \E i \in Ganadoras : \A j \in DOMAIN ofertas : ofertas[j].monto <= ofertas[i].monto

\* C2: the accepted bids, in acceptance order, are strictly increasing in
\* amount.
C2_MontosEstrictamenteCrecientes ==
    \A i, j \in DOMAIN ofertas : i < j => ofertas[i].monto < ofertas[j].monto

\* C3: a bid is created only when the computed state is ACTIVE at validation;
\* a place-bid request in any other state is refused and creates no bid.
C3_SoloSePujaEnActiva ==
    [][ /\ PujaAceptada => Abierta
        /\ \A m \in Montos :
              (~Abierta /\ Puja(m)) =>
                  (ofertas' = ofertas /\ respuesta'.status = 400) ]_vars

C3_Testigo ==
    /\ respuesta.status = 400
    /\ respuesta.motivo = "NO_ACTIVA"
    /\ subasta.estado = "CANCELADA"
    /\ subasta.inicio <= ahora
    /\ ahora <= subasta.fin

\* C4: on an ACTIVE auction a bid is created only for an amount strictly above
\* the current price; an amount equal to or below it is refused.
C4_SoloMontoSuperior ==
    [][ \A m \in Montos :
          /\ (PujaAceptada /\ Puja(m)) => ~NoSupera(m)
          /\ (Abierta /\ NoSupera(m) /\ Puja(m)) =>
                 (ofertas' = ofertas /\ respuesta'.status = 400) ]_vars

C4_Testigo ==
    /\ respuesta.status = 400
    /\ respuesta.motivo = "MONTO_BAJO"
    /\ ofertas # <<>>
    /\ Abierta

\* The anti-sniping conditions of section 4.4 on the stored row
EnVentana == config.habilitado /\ subasta.fin - ahora < config.umbral

EnLimite == config.max > 0 /\ subasta.extensiones >= config.max

\* C5: a bid accepted while anti-sniping is enabled, inside the threshold
\* window and below the cap has moved fecha_hora_fin by the extension and
\* counted one extension when the place-bid call returns.
C5_PujaExtiendeAntesDeResponder ==
    [][ (PujaAceptada /\ EnVentana /\ ~EnLimite) =>
          /\ subasta'.fin = subasta.fin + config.extension
          /\ subasta'.extensiones = subasta.extensiones + 1 ]_vars

\* C6: with a cap, extensiones_realizadas never exceeds it; at the cap a valid
\* bid inside the window is still accepted and neither it nor the evaluation
\* changes fecha_hora_fin or extensiones_realizadas.
C6_LimiteDeExtensiones ==
    [][ /\ config.max > 0 => subasta'.extensiones <= config.max
        /\ \A m \in Montos :
              (EnVentana /\ EnLimite /\ Abierta /\ ~NoSupera(m) /\ Puja(m)) =>
                  (PujaAceptada /\ subasta' = subasta)
        /\ (EnVentana /\ EnLimite /\ notificar_puja_leer) =>
                  (verif'.pc = "senal" /\ subasta' = subasta) ]_vars

C6_Testigo ==
    /\ verif.pc = "senal"
    /\ verif.rama = "limite"
    /\ EnVentana
    /\ EnLimite
    /\ respuesta.status = 201
    /\ Abierta

\* C7: an evaluation with anti-sniping disabled, or with fecha_hora_fin - now
\* at or above the threshold, saves nothing and publishes nothing.
C7_SinExtensionFueraDeVentana ==
    [][ /\ (~EnVentana /\ notificar_puja_leer) =>
              (verif'.pc = "senal" /\ subasta' = subasta /\ pubs' = pubs)
        /\ notificar_puja_senal => (subasta' = subasta /\ pubs' = pubs) ]_vars

C7_Testigo ==
    /\ verif.pc = "senal"
    /\ verif.rama = "umbral"
    /\ subasta.estado = "ACTIVA"
    /\ config.habilitado
    /\ subasta.fin - ahora = config.umbral

\* C8: the scheduler task writes FINALIZADA only when the fecha_hora_fin
\* stored at that moment is <= now.
C8_FinalizaConFinVencido ==
    [][ (timer.pc = "finalizando" /\ timer'.pc = "terminado") =>
            subasta.fin <= ahora ]_vars

\* C9: of a cancel and the task's finalization only one takes effect: the
\* auction is not FINALIZADA once a cancel succeeded, not CANCELADA once the
\* task finalized it, and subasta_cancelada and subasta_finalizada are never
\* both published.
C9_CancelarOFinalizar ==
    /\ pubs.cancelada >= 1 => subasta.estado # "FINALIZADA"
    /\ pubs.finalizada >= 1 => subasta.estado # "CANCELADA"
    /\ ~(pubs.cancelada >= 1 /\ pubs.finalizada >= 1)

\* C10: subasta_finalizada is published at most once for the auction.
C10_FinalizadaUnaVez == pubs.finalizada <= 1

C12_FinalizadaEsTerminal ==
    [][ subasta.estado = "FINALIZADA" => subasta'.estado = "FINALIZADA" ]_vars

\* Steps of the scheduler task that write the declared state
PasoActivar == timer.pc = "activando" /\ timer'.pc = "leer"

PasoFinalizar == timer.pc = "finalizando" /\ timer'.pc = "terminado"

\* C13: the declared state becomes ACTIVA only by the scheduler task and only
\* from PROGRAMADA, and becomes FINALIZADA only by the scheduler task and only
\* from ACTIVA.
C13_TransicionesSoloDelReloj ==
    [][ /\ (subasta'.estado = "ACTIVA" /\ subasta.estado # "ACTIVA") =>
              (PasoActivar /\ subasta.estado = "PROGRAMADA")
        /\ (subasta'.estado = "FINALIZADA" /\ subasta.estado # "FINALIZADA") =>
              (PasoFinalizar /\ subasta.estado = "ACTIVA") ]_vars

\* A step that serves a bid or a cancel request
PasoDePeticion == respuesta' # respuesta \/ ofertas' # ofertas \/ cancel' # cancel

\* C16: no bid or cancel request is served while an auction found PROGRAMADA
\* or ACTIVA at startup has no scheduler task spawned yet.
C16_TimersAntesDePeticiones ==
    [][ (PasoDePeticion /\ subasta.estado \in {"PROGRAMADA", "ACTIVA"}) =>
            timer.pc # "no" ]_vars

\* C17: a step of the scheduler task on an auction whose declared state is
\* CANCELADA leaves the row as it is and publishes neither subasta_iniciada
\* nor subasta_finalizada.
C17_RelojRespetaCancelada ==
    [][ (subasta.estado = "CANCELADA" /\ timer' # timer) =>
            /\ subasta' = subasta
            /\ pubs'.iniciada = pubs.iniciada
            /\ pubs'.finalizada = pubs.finalizada ]_vars

\* C18: a cancel request that finds the auction not cancelled and past its
\* fecha_hora_fin is refused: the row is unchanged and subasta_cancelada is
\* not published, whatever the declared state.
C18_NoSeCancelaFinalizada ==
    [][ (subasta.estado # "CANCELADA" /\ ahora > subasta.fin /\ cancelar_leer) =>
            /\ respuesta'.status = 400
            /\ cancel'.pc = "idle"
            /\ subasta' = subasta
            /\ pubs' = pubs ]_vars

C18_Testigo ==
    /\ respuesta = [status |-> 400, motivo |-> "FINALIZADA"]
    /\ subasta.estado = "ACTIVA"
    /\ ahora > subasta.fin
    /\ pubs.cancelada = 0

\* C19: a cancel request on an auction already CANCELADA is refused and
\* changes and publishes nothing, so subasta_cancelada is published at most
\* once for the auction.
C19_CancelarIdempotente ==
    /\ pubs.cancelada <= 1
    /\ (cancel.pc = "guardar" => cancel.s.estado # "CANCELADA")

\* The auction has been created
Existe == subasta # Ninguna

\* C14: every auction that is created and not cancelled gets a scheduler
\* task: once fecha_hora_inicio has come it leaves PROGRAMADA, and once
\* fecha_hora_fin has passed it becomes FINALIZADA.
C14_TodaSubastaTieneReloj ==
    /\ (Existe /\ subasta.estado = "PROGRAMADA" /\ ahora >= subasta.inicio)
          ~> (subasta.estado # "PROGRAMADA")
    /\ (Existe /\ ahora > subasta.fin)
          ~> (subasta.estado \in {"FINALIZADA", "CANCELADA"} \/ ahora <= subasta.fin)

\* The step of inicializar_timers that queries the pending auctions
PasoInicializar == timer.pc = "no" /\ timer'.pc # "no"

\* C15: at startup a scheduler task is spawned for the auction exactly when
\* its declared state is PROGRAMADA or ACTIVA; the task writes FINALIZADA only
\* once the stored fecha_hora_fin has come, and an auction with a task that is
\* past its fecha_hora_fin becomes FINALIZADA unless it is cancelled.
C15_ArranqueProgramaTimers ==
    /\ [][ PasoInicializar =>
             (timer'.pc = "creado" <=> subasta.estado \in {"PROGRAMADA", "ACTIVA"}) ]_vars
    /\ [][ PasoFinalizar => subasta.fin <= ahora ]_vars
    /\ (timer.pc = "creado" /\ ahora > subasta.fin)
          ~> (subasta.estado \in {"FINALIZADA", "CANCELADA"} \/ ahora <= subasta.fin)

\* A step in which a publish raised
PublicacionFalla == pubs'.fallidas > pubs.fallidas

\* C20: a publish that raises never undoes the state change that triggered
\* it: after a step whose publish failed, the accepted bid is in the ledger,
\* the cancel has left the row CANCELADA, and the scheduler's transition has
\* left it ACTIVA or FINALIZADA.
C20_FalloDePublicacionNoDeshace ==
    [][ PublicacionFalla =>
          /\ (timer' = timer /\ cancel' = cancel) => Len(ofertas') = Len(ofertas) + 1
          /\ cancel' # cancel => subasta'.estado = "CANCELADA"
          /\ (timer' # timer /\ timer.pc = "activando") => subasta'.estado = "ACTIVA"
          /\ (timer' # timer /\ timer.pc = "finalizando") => subasta'.estado = "FINALIZADA"
      ]_vars

\* A step that persists an anti-sniping extension
PasoExtension == verif.pc = "guardar" /\ subasta'.extensiones > subasta.extensiones

\* C21: every anti-sniping extension that is persisted is published: the step
\* of the evaluation that saves the new fecha_hora_fin also sends
\* subasta_actualizada; no extension is saved silently.
C21_ExtensionPublicada ==
    [][ PasoExtension => pubs'.actualizada > pubs.actualizada ]_vars

\* A create request that is answered
PasoCrear == respuesta' # respuesta /\ respuesta'.motivo \in {"YA_EXISTE", "FECHAS", "CREADA"}

\* C22: a create request for the lot is refused as "already has an auction"
\* exactly when the lot has an auction that is not CANCELADA; a lot whose
\* auction is CANCELADA can be scheduled again.
C22_UnaSubastaNoCanceladaPorLote ==
    [][ PasoCrear =>
          (respuesta'.motivo = "YA_EXISTE"
             <=> (subasta # Ninguna /\ subasta.estado # "CANCELADA")) ]_vars

\* C24: every stored auction has fecha_hora_fin > fecha_hora_inicio, in every
\* reachable state, whatever create, update and the anti-sniping evaluation
\* have written.
C24_FinDespuesDeInicio == Existe => subasta.fin > subasta.inicio

\* C23: the computed state a request is shown is CANCELADA exactly when the
\* declared state is CANCELADA; otherwise it is PROGRAMADA exactly when
\* now < inicio, ACTIVA exactly when inicio <= now <= fin (both inclusive)
\* and FINALIZADA exactly when now > fin.
C23_EstadoCalculado ==
    [][ (respuesta' # respuesta /\ respuesta'.status = 200) =>
          LET e == respuesta'.motivo
          IN  /\ e \in Estados
              /\ e = "CANCELADA" <=> subasta.estado = "CANCELADA"
              /\ subasta.estado # "CANCELADA" =>
                   /\ e = "PROGRAMADA" <=> ahora < subasta.inicio
                   /\ e = "ACTIVA" <=> (subasta.inicio <= ahora /\ ahora <= subasta.fin)
                   /\ e = "FINALIZADA" <=> ahora > subasta.fin ]_vars

\* The computed state is ACTIVA at now = fin, whatever non-cancelled state is
\* declared: here a declared FINALIZADA
C23_Testigo ==
    /\ respuesta = [status |-> 200, motivo |-> "ACTIVA"]
    /\ ahora = subasta.fin
    /\ subasta.estado = "FINALIZADA"

\* C25: an anti-sniping evaluation is not interleaved with another writer of
\* the row: the extension it saves adds the configured seconds to the stored
\* fecha_hora_fin and 1 to the stored extensiones_realizadas.
C25_ExtensionSobreLoAlmacenado ==
    [][ (verif.pc = "guardar" /\ verif'.rama = "extendida") =>
          /\ subasta'.fin = subasta.fin + config.extension
          /\ subasta'.extensiones = subasta.extensiones + 1 ]_vars

\* A timer task of the auction is running: registered and not yet out
Corriendo ==
    timer.pc \in {"dormir", "activar", "activando", "leer", "esperar",
                  "finalizar", "finalizando"}

\* C26: the registry holds the auction's id exactly while its one timer task
\* is running, and a task that is out (finalized, cancelled, error) has left
\* neither its id nor its wake event behind.
C26_UnTimerPorSubasta ==
    /\ ID \in timers_activos <=> Corriendo
    /\ ~Corriendo => evento = "none"

\* A task ended by a notification that raised, and a later call started a
\* new one that is now waiting for fecha_hora_fin
C26_Testigo ==
    /\ pubs.fallidas = 1
    /\ timer.pc = "esperar"
    /\ timers_activos = {ID}

\* C27: no bid is accepted on an auction whose declared state is FINALIZADA:
\* every step that adds a bid to the ledger starts with another declared
\* state.
C27_SinPujaEnFinalizada ==
    [][ Len(ofertas') > Len(ofertas) => subasta.estado # "FINALIZADA" ]_vars

\* C28: the write of a cancel request changes only the declared state: the
\* dates, extensiones_realizadas and precio_base stored after it are the ones
\* stored just before it.
C28_CancelarSoloCambiaEstado ==
    [][ (cancel.pc = "guardar" /\ cancel'.pc = "idle") =>
          /\ subasta'.estado = "CANCELADA"
          /\ subasta'.inicio = subasta.inicio
          /\ subasta'.fin = subasta.fin
          /\ subasta'.extensiones = subasta.extensiones
          /\ subasta'.precio_base = subasta.precio_base ]_vars

\* C29: an auction whose activation was saved while its notification raised
\* is not left declared ACTIVA for ever: it is later set to FINALIZADA (or is
\* cancelled).
C29_ActivaConFalloFinaliza ==
    (pubs.fallidas > 0 /\ subasta.estado = "ACTIVA")
        ~> (subasta.estado \in {"FINALIZADA", "CANCELADA"})

\* C30: with a limit of extensions the timer task terminates: fecha_hora_fin
\* is moved at most antisniping_max_extensiones times, and a task that is
\* running eventually exits (unless fecha_hora_fin lies beyond the last
\* instant of the clock), whatever wake signals arrive.
C30_ElTimerTermina ==
    /\ [](config.max > 0 =>
            subasta.fin <= FinInicial + config.max * config.extension)
    /\ (config.max > 0 /\ Corriendo)
          ~> (timer.pc = "terminado" \/ subasta.fin > MaxTiempo)

\* The limit of extensions was reached and the task finalized the auction at
\* the extended fecha_hora_fin and exited
C30_Testigo ==
    /\ config.max > 0
    /\ subasta.extensiones = config.max
    /\ subasta.fin = FinInicial + config.max * config.extension
    /\ subasta.fin <= MaxTiempo
    /\ ahora >= subasta.fin
    /\ subasta.estado = "FINALIZADA"
    /\ timer.pc = "terminado"
====
